---- MODULE Spec2Model ----
(***************************************************************************)
(* Model of the two waybar scripts of HyprV that share one cache file:     *)
(*   waybar-wttr-c.py  (weather: cache-or-fetch, save)                      *)
(*   waybar-lunar.py   (moon phase: reads the location from the same file) *)
(* The cache file, the wall clock and the remote services are the          *)
(* environment; every invocation of a script is a process whose steps are   *)
(* the blocking calls of the script.                                        *)
(***************************************************************************)
EXTENDS Integers, Sequences, FiniteSets, TLC

\* ---------------------------------------------------------------- bounds
MaxRuns == 2        \* weather invocations started in one behaviour
MaxLunarRuns == 1   \* lunar invocations started in one behaviour
MaxTicks == 2       \* clock advances in one behaviour
MinHalf == 28       \* shortest new-to-full / full-to-new interval, half days
MaxHalf == 31       \* longest new-to-full / full-to-new interval, half days

\* ------------------------------------------------------- program constants
CACHE_DURATION == 3600

WProcs == {1, 2}                  \* weather invocations that may overlap
TickSteps == {1, 3599, 4000}      \* seconds the clock may advance at once
Locs == {"L1", "L2"}              \* locations a geolocation service may return
Mumbai == "Mumbai"                \* the lunar script's default location
NoCoords == "nocoords"            \* a location record without 'latitude'
NoLoc == "none"
NoWeather == << >>

HasCoords(loc) == loc \in Locs \cup {Mumbai}

\* ----------------------------------------------------------- the cache file
\* kind: "absent"     no file
\*       "entry"      a pickled (weather, location) pair
\*       "nonpair"    a pickle of a non-empty value that is no pair
\*       "falsy"      a pickle of an empty value (None, (), 0)
\*       "corrupt"    bytes pickle.load rejects
\*       "unreadable" open() raises PermissionError
\*       "partial"    truncated by open(.., 'wb'), dump not finished
AbsentFile == [kind |-> "absent", weather |-> NoWeather, location |-> NoLoc, mtime |-> 0]
EntryFile(w, l, t) == [kind |-> "entry", weather |-> w, location |-> l, mtime |-> t]
JunkFile(k, t) == [kind |-> k, weather |-> NoWeather, location |-> NoLoc, mtime |-> t]

\* Contents the file may have when the first invocation starts.
InitFiles ==
    {AbsentFile, EntryFile(<<0>>, "L1", 0), EntryFile(<<0>>, NoCoords, 0)}
    \cup {JunkFile(k, 0) : k \in {"nonpair", "falsy", "corrupt", "unreadable"}}

\* What pickle.load yields: kind "pair" | "nonpair" | "falsy", or "raise".
None == [kind |-> "none", weather |-> NoWeather, location |-> NoLoc]
Raise == [kind |-> "raise", weather |-> NoWeather, location |-> NoLoc]

pickle_load(f) ==
    CASE f.kind = "entry"   -> [kind |-> "pair", weather |-> f.weather, location |-> f.location]
      [] f.kind = "nonpair" -> [kind |-> "nonpair", weather |-> NoWeather, location |-> NoLoc]
      [] f.kind = "falsy"   -> [kind |-> "falsy", weather |-> NoWeather, location |-> NoLoc]
      [] OTHER              -> Raise

IsFreshInverted(cache_age) == cache_age > CACHE_DURATION
IsFreshInclusive(cache_age) == cache_age <= CACHE_DURATION
\* line 104
IsFresh(cache_age) == cache_age < CACHE_DURATION

load_cached_data_any_age(f, now) ==
    IF f.kind # "absent"
    THEN IF pickle_load(f).kind = "raise" THEN None ELSE pickle_load(f)
    ELSE None

\* load_cached_data(): the value returned (None on a miss or on any exception)
load_cached_data(f, now) ==
    IF f.kind # "absent"
    THEN IF IsFresh(now - f.mtime)
         THEN IF pickle_load(f).kind = "raise" THEN None ELSE pickle_load(f)
         ELSE None
    ELSE None

\* Python truth value of what load_cached_data returned
Truthy(d) == d.kind \in {"pair", "nonpair"}

\* save_cached_data(): open(CACHE_FILE, 'wb') truncates the file in place ...
save_open(f, now) == JunkFile("partial", now)
\* ... and pickle.dump writes the pair into it
save_dump(f, w, l, now) == EntryFile(w, l, now)


\* ------------------------------------------------------------------ state
VARIABLES
    clock,        \* datetime.now().timestamp(), seconds
    ticks,        \* how often the clock has advanced
    file,         \* CACHE_FILE: contents and st_mtime
    nextId,       \* serial number of the next weather response
    runs,         \* weather invocations started so far
    wpc,          \* weather script: position of each invocation
    cached_data,  \* weather script: module variable cached_data
    weather,      \* weather script: module variable weather
    location,     \* weather script: module variable location
    wout,         \* weather script: what the invocation printed / how it ended
    obs,          \* history: what each weather invocation saw and did
    prev,         \* history: summary of the weather invocation that ended last
    lruns,        \* lunar invocations started so far
    lpc,          \* lunar script: position
    lloc,         \* lunar script: the location each get_location() call returned
    lsrc,         \* history: the kind of file each get_location() call looked at
    lage,         \* history: the age of the file at each get_location() call
    moon,         \* lunar script: locals of get_current_moon_phase
    lout,         \* lunar script: what the invocation printed / how it ended
    ephem         \* the sky: what the ephem library reports at this instant

wvars == <<nextId, runs, wpc, cached_data, weather, location, wout, obs, prev>>
lvars == <<lruns, lpc, lloc, lsrc, lage, moon, lout>>
vars == <<clock, ticks, file, ephem, wvars, lvars>>

NoOut == [kind |-> "none", msg |-> "", weather |-> NoWeather, location |-> NoLoc, extra |-> 0]

NoSummary ==
    [valid |-> FALSE, miss |-> FALSE, ok |-> FALSE, fetched |-> FALSE,
     saved |-> FALSE, loadTime |-> 0, saveTime |-> 0]

InitObs ==
    [loaded |-> FALSE, seen |-> AbsentFile, loadTime |-> 0, fetched |-> FALSE,
     geo |-> FALSE, wx |-> FALSE, ip429 |-> FALSE, saveTried |-> FALSE, saved |-> FALSE,
     saveTime |-> 0, after |-> AbsentFile, solo |-> FALSE, pred |-> NoSummary]

\* The cache looked absent or stale to the invocation with history o.
Miss(o) == o.seen.kind = "absent" \/ o.loadTime - o.seen.mtime >= CACHE_DURATION

Summarize(o, out) ==
    [valid |-> o.solo /\ o.loaded, miss |-> Miss(o), ok |-> out.kind = "ok",
     fetched |-> o.fetched, saved |-> o.saved, loadTime |-> o.loadTime,
     saveTime |-> o.saveTime]

WActive(p) == wpc[p] \notin {"idle", "done"}

\* The invocation ends: by print + exit(0), by an uncaught exception, or by
\* reaching the last line.
WEnd(p, out, o) ==
    /\ wpc' = [wpc EXCEPT ![p] = "done"]
    /\ wout' = [wout EXCEPT ![p] = out]
    /\ obs' = [obs EXCEPT ![p] = o]
    /\ prev' = Summarize(o, out)


\* ------------------------------------------------------- weather script
\* Lines 119-134 and 250-256: a new invocation reads hyprv.conf for the API
\* key, then cached_data = load_cached_data(); if cached_data: unpack it and go
\* on to build the record (lines 403-485), else go on to fetch.
WLoad(p) ==
    /\ ~WActive(p)
    /\ runs < MaxRuns
    /\ runs' = runs + 1
    /\ \E cfg \in {"ok", "nokey", "missing"} :
        LET others == \E q \in WProcs \ {p} : WActive(q)
            rest == [q \in WProcs |->
                        IF q # p /\ WActive(q) THEN [obs[q] EXCEPT !.solo = FALSE]
                        ELSE obs[q]]
            o0 == [InitObs EXCEPT !.solo = ~others,
                                  !.pred = IF others THEN NoSummary ELSE prev]
            o == [o0 EXCEPT !.loaded = TRUE, !.seen = file, !.loadTime = clock]
            d == load_cached_data(file, clock)
            End(out, oo) ==
                /\ wpc' = [wpc EXCEPT ![p] = "done"]
                /\ wout' = [wout EXCEPT ![p] = out]
                /\ obs' = [rest EXCEPT ![p] = oo]
                /\ prev' = Summarize(oo, out)
        IN IF cfg # "ok"
           THEN \* print the error record; exit(0)
                /\ End([NoOut EXCEPT !.kind = "error", !.msg = "config"], o0)
                /\ cached_data' = [cached_data EXCEPT ![p] = None]
                /\ weather' = [weather EXCEPT ![p] = NoWeather]
                /\ location' = [location EXCEPT ![p] = NoLoc]
           ELSE /\ cached_data' = [cached_data EXCEPT ![p] = d]
                /\ IF Truthy(d)
                   THEN IF d.kind # "pair"
                        THEN \* weather, location = cached_data: ValueError/TypeError
                             /\ End([NoOut EXCEPT !.kind = "crash", !.msg = "unpack"], o)
                             /\ weather' = [weather EXCEPT ![p] = NoWeather]
                             /\ location' = [location EXCEPT ![p] = NoLoc]
                        ELSE /\ weather' = [weather EXCEPT ![p] = d.weather]
                             /\ location' = [location EXCEPT ![p] = d.location]
                             /\ IF HasCoords(d.location)
                                THEN End([NoOut EXCEPT !.kind = "ok", !.weather = d.weather,
                                                       !.location = d.location], o)
                                ELSE \* location['latitude']: KeyError, line 296
                                     End([NoOut EXCEPT !.kind = "error", !.msg = "parse"], o)
                   ELSE /\ wpc' = [wpc EXCEPT ![p] = "fetch"]
                        /\ wout' = [wout EXCEPT ![p] = NoOut]
                        /\ obs' = [rest EXCEPT ![p] = [o EXCEPT !.fetched = TRUE]]
                        /\ weather' = [weather EXCEPT ![p] = NoWeather]
                        /\ location' = [location EXCEPT ![p] = NoLoc]
                        /\ prev' = prev
    /\ UNCHANGED <<clock, ticks, file, ephem, nextId, lvars>>

\* Lines 258-288: get_location_from_wifi(), else the ipapi.co request, then
\* the OpenWeatherMap request.
\* wifi: "none"  no access points or no Google key: no request is made
\*       "fail"  the geolocation request fails (the error is printed, line 204)
\*       "ok"    coordinates, then get_location_info (never raises)
\* ip:   "ok" | "nocoords" (JSON without 'latitude') | "429" | "fail"
\* wx:   "ok" | "fail"
WFetch(p) ==
    /\ wpc[p] = "fetch"
    /\ \E wifi \in {"none", "fail", "ok"}, ip \in {"ok", "nocoords", "429", "fail"},
          wx \in {"ok", "fail"}, l \in Locs :
        LET out == IF wifi = "fail" THEN [wout[p] EXCEPT !.extra = @ + 1] ELSE wout[p]
            og == [obs[p] EXCEPT !.geo = TRUE, !.ip429 = (wifi # "ok" /\ ip = "429")]
            stale == Truthy(cached_data[p]) /\ ip = "429"     \* line 277
            \* the location after lines 258-282, NoLoc when they raise
            loc == IF wifi = "ok" \/ ip = "ok" THEN l
                   ELSE IF ip = "nocoords" THEN NoCoords
                   ELSE IF stale THEN cached_data[p].location
                   ELSE NoLoc
        IN /\ wifi = "ok" => ip = "ok"
           /\ ~HasCoords(loc) => (l = "L1" /\ wx = "ok")
           /\ IF loc = NoLoc
              THEN \* raise: caught at line 293
                   /\ WEnd(p, [out EXCEPT !.kind = "error", !.msg = "api"], og)
                   /\ UNCHANGED <<weather, location, nextId>>
              ELSE IF loc = NoCoords
              THEN \* location['latitude']: KeyError, caught at line 296
                   /\ WEnd(p, [out EXCEPT !.kind = "error", !.msg = "parse"], og)
                   /\ location' = [location EXCEPT ![p] = loc]
                   /\ UNCHANGED <<weather, nextId>>
              ELSE /\ location' = [location EXCEPT ![p] = loc]
                   /\ IF wx = "ok"
                      THEN /\ weather' = [weather EXCEPT ![p] = <<nextId>>]
                           /\ nextId' = nextId + 1
                           /\ wpc' = [wpc EXCEPT ![p] = "save_open"]
                           /\ wout' = [wout EXCEPT ![p] = out]
                           /\ obs' = [obs EXCEPT ![p] = [og EXCEPT !.wx = TRUE]]
                           /\ prev' = prev
                      ELSE /\ WEnd(p, [out EXCEPT !.kind = "error", !.msg = "api"],
                                   [og EXCEPT !.wx = TRUE])
                           /\ UNCHANGED <<weather, nextId>>
    /\ UNCHANGED <<clock, ticks, file, ephem, runs, cached_data, lvars>>

\* The record built from weather and location at lines 403-485.
Record(p, out) == [out EXCEPT !.kind = "ok", !.weather = weather[p], !.location = location[p]]

SaveErrorRaised(rec) == [rec EXCEPT !.kind = "crash", !.msg = "save", !.weather = NoWeather,
                                    !.location = NoLoc]
\* Lines 116-117, except Exception: pass. The script goes on to print rec.
SaveError(rec) == rec

\* Lines 111-114: save_cached_data opens the cache file for writing. An
\* exception (permission denied) is swallowed at lines 116-117 and the record
\* is built and printed.
WSaveOpen(p) ==
    /\ wpc[p] = "save_open"
    /\ \E r \in {"ok", "fail"} :
        IF r = "ok"
        THEN /\ file' = save_open(file, clock)
             /\ wpc' = [wpc EXCEPT ![p] = "save_dump"]
             /\ obs' = [obs EXCEPT ![p] = [@ EXCEPT !.saveTried = TRUE]]
             /\ UNCHANGED <<wout, prev>>
        ELSE /\ file' = file
             /\ WEnd(p, SaveError(Record(p, wout[p])), [obs[p] EXCEPT !.saveTried = TRUE])
    /\ UNCHANGED <<clock, ticks, ephem, nextId, runs, cached_data, weather, location, lvars>>

\* Line 115: pickle.dump((weather_data, location_data), f) and the close. An
\* exception (disk full) is swallowed at lines 116-117. Then the record is
\* built and printed.
WSaveDump(p) ==
    /\ wpc[p] = "save_dump"
    /\ \E r \in {"ok", "fail"} :
        IF r = "ok"
        THEN /\ file' = save_dump(file, weather[p], location[p], clock)
             /\ WEnd(p, Record(p, wout[p]),
                     [obs[p] EXCEPT !.saved = TRUE, !.saveTime = clock, !.after = file'])
        ELSE /\ file' = file
             /\ WEnd(p, SaveError(Record(p, wout[p])), obs[p])
    /\ UNCHANGED <<clock, ticks, ephem, nextId, runs, cached_data, weather, location, lvars>>

\* Time passes.
Tick ==
    /\ ticks < MaxTicks
    /\ \E d \in TickSteps : clock' = clock + d
    /\ ticks' = ticks + 1
    /\ UNCHANGED <<file, ephem, wvars, lvars>>

\* --------------------------------------------------------- lunar script
get_location_default_when_absent(f) ==
    IF f.kind # "absent"
    THEN IF pickle_load(f).kind = "pair" THEN pickle_load(f).location ELSE Mumbai
    ELSE Mumbai

\* get_location(), lines 18-27: the location of the cached pair; the default
\* when anything raises; None (NoLoc) when the file does not exist, because the
\* function then falls off its end.
get_location(f) ==
    IF f.kind # "absent"
    THEN IF pickle_load(f).kind = "pair" THEN pickle_load(f).location ELSE Mumbai
    ELSE NoLoc

\* The sky as ephem reports it, in half days relative to observer.date:
\*   last  the most recent syzygy, "new" or "full"
\*   e     half days since it
\*   prevH half days between the syzygy before it and it
\*   curH  half days between it and the next syzygy
\*   phase moon.phase, the illuminated percentage, in quarters of a percent
Halves == MinHalf..MaxHalf
Skies ==
    {s \in [last : {"new", "full"}, e : 1..(MaxHalf - 1), prevH : Halves, curH : Halves] :
        s.e < s.curH}
Percents == 0..400

\* ephem.next_full_moon(date) - date
days_to_full(s) == IF s.last = "new" THEN s.curH - s.e ELSE (s.curH - s.e) + s.prevH
\* date - ephem.previous_full_moon(date)
days_from_full(s) == IF s.last = "new" THEN s.e + s.prevH ELSE s.e
\* date - ephem.previous_new_moon(date)
days_since_new(s) == IF s.last = "new" THEN s.e ELSE s.e + s.prevH

\* line 130
is_waxing(s) == days_to_full(s) < days_from_full(s)

PhaseNameInclusive(phase_percent, waxing) ==
    IF phase_percent < 25 THEN "New Moon"
    ELSE IF phase_percent > 375 THEN "Full Moon"
    ELSE IF waxing
         THEN IF phase_percent <= 175 THEN "Waxing Crescent"
              ELSE IF phase_percent < 225 THEN "First Quarter"
              ELSE "Waxing Gibbous"
         ELSE IF phase_percent <= 175 THEN "Waning Crescent"
              ELSE IF phase_percent < 225 THEN "Last Quarter"
              ELSE "Waning Gibbous"

\* lines 136-153, phase_percent in quarters of a percent (6.25 % = 25)
PhaseName(phase_percent, waxing) ==
    IF phase_percent < 25 THEN "New Moon"
    ELSE IF phase_percent > 375 THEN "Full Moon"
    ELSE IF waxing
         THEN IF phase_percent < 175 THEN "Waxing Crescent"
              ELSE IF phase_percent < 225 THEN "First Quarter"
              ELSE "Waxing Gibbous"
         ELSE IF phase_percent < 175 THEN "Waning Crescent"
              ELSE IF phase_percent < 225 THEN "Last Quarter"
              ELSE "Waning Gibbous"

NoMoon == [is_waxing |-> FALSE, phase_name |-> "", phase_percent |-> 0]
NoLOut == [kind |-> "none", phase_name |-> "", location |-> NoLoc, extra |-> 0]

LEnd(out) ==
    /\ lpc' = "done"
    /\ lout' = out

\* A new invocation of waybar-lunar.py: main() calls get_moon_phases(), lines
\* 29-43. location['latitude'] raises TypeError on None and KeyError on a
\* location without coordinates; main() catches nothing.
LMoonPhases ==
    /\ lpc \in {"idle", "done"}
    /\ lruns < MaxLunarRuns
    /\ lruns' = lruns + 1
    /\ moon' = NoMoon
    /\ LET l == get_location(file)
       IN /\ lloc' = <<l, NoLoc, NoLoc>>
          /\ lsrc' = <<file.kind, "", "">>
          /\ lage' = <<clock - file.mtime, 0, 0>>
          /\ IF HasCoords(l)
             THEN /\ lpc' = "current_phase"
                  /\ lout' = NoLOut
             ELSE LEnd([NoLOut EXCEPT !.kind = "crash"])
    /\ UNCHANGED <<clock, ticks, file, ephem, wvars>>

\* get_current_moon_phase(), lines 105-153.
LCurrentPhase ==
    /\ lpc = "current_phase"
    /\ LET l == get_location(file)
       IN /\ lloc' = [lloc EXCEPT ![2] = l]
          /\ lsrc' = [lsrc EXCEPT ![2] = file.kind]
          /\ lage' = [lage EXCEPT ![2] = clock - file.mtime]
          /\ IF HasCoords(l)
             THEN /\ lpc' = "panchang"
                  /\ moon' = [is_waxing |-> is_waxing(ephem.sky),
                              phase_percent |-> ephem.phase,
                              phase_name |-> PhaseName(ephem.phase, is_waxing(ephem.sky))]
                  /\ lout' = lout
             ELSE /\ LEnd([lout EXCEPT !.kind = "crash"])
                  /\ moon' = moon
    /\ UNCHANGED <<clock, ticks, file, ephem, wvars, lruns>>

\* DrikPanchangInfo(), lines 45-58, and get_today_info(), lines 81-103:
\* location.get on None raises inside the try, the message is printed and the
\* city falls back to Mumbai; a failing calendar lookup prints a message too.
\* Then main(), lines 164-196, prints the record.
LPanchang ==
    /\ lpc = "panchang"
    /\ \E cal \in {"ok", "fail"} :
        LET l == get_location(file)
            n == (IF l = NoLoc THEN 1 ELSE 0) + (IF cal = "fail" THEN 1 ELSE 0)
        IN /\ lloc' = [lloc EXCEPT ![3] = IF l = NoLoc THEN Mumbai ELSE l]
           /\ lsrc' = [lsrc EXCEPT ![3] = file.kind]
           /\ lage' = [lage EXCEPT ![3] = clock - file.mtime]
           /\ LEnd([lout EXCEPT !.kind = "ok", !.phase_name = moon.phase_name,
                                !.location = lloc[2], !.extra = @ + n])
    /\ UNCHANGED <<clock, ticks, file, ephem, wvars, lruns, moon>>

\* ------------------------------------------------------- specifications
InitCommon ==
    /\ clock = 0
    /\ ticks = 0
    /\ nextId = 1
    /\ runs = 0
    /\ wpc = [p \in WProcs |-> "idle"]
    /\ cached_data = [p \in WProcs |-> None]
    /\ weather = [p \in WProcs |-> NoWeather]
    /\ location = [p \in WProcs |-> NoLoc]
    /\ wout = [p \in WProcs |-> NoOut]
    /\ obs = [p \in WProcs |-> InitObs]
    /\ prev = NoSummary
    /\ lruns = 0
    /\ lpc = "idle"
    /\ lloc = <<NoLoc, NoLoc, NoLoc>>
    /\ lsrc = <<"", "", "">>
    /\ lage = <<0, 0, 0>>
    /\ moon = NoMoon
    /\ lout = NoLOut

\* Both scripts, run by the bar at its own intervals, over one cache file.
Init ==
    /\ InitCommon
    /\ file \in InitFiles
    /\ ephem = [phase |-> 200, sky |-> [last |-> "new", e |-> MinHalf \div 2, prevH |-> MinHalf, curH |-> MaxHalf]]

Weather ==
    \E p \in WProcs :
        \/ WLoad(p)
        \/ WFetch(p)
        \/ WSaveOpen(p)
        \/ WSaveDump(p)

Lunar == LMoonPhases \/ LCurrentPhase \/ LPanchang

Next == Weather \/ Lunar \/ Tick

\* The whole system. The specifications below are its parts: each keeps Init
\* (or fixes the cache file and varies the sky) and a subset of Next's actions.
Spec == Init /\ [][Next]_vars

\* The weather script alone, one invocation after the other.
SeqWeather == WLoad(1) \/ WFetch(1) \/ WSaveOpen(1) \/ WSaveDump(1)

SeqNext == SeqWeather \/ Tick

SeqSpec == Init /\ [][SeqNext]_vars

\* Overlapping invocations of both scripts within one instant.
ConcNext == Weather \/ Lunar

ConcSpec == Init /\ [][ConcNext]_vars

\* The lunar script while one weather invocation may be running.
LunarNext == SeqWeather \/ Lunar

LunarSpec == Init /\ [][LunarNext]_vars

\* Both scripts, one weather invocation at a time, while time passes.
AgeNext == SeqWeather \/ Lunar \/ Tick

AgeSpec == Init /\ [][AgeNext]_vars

\* The lunar script alone, under every illuminated percentage.
PhaseInit ==
    /\ InitCommon
    /\ file \in {EntryFile(<<0>>, "L1", 0)}
    /\ ephem \in [phase : Percents,
                  sky : {s \in Skies : s.e = MinHalf \div 2 /\ s.prevH = MinHalf /\ s.curH = MinHalf}]

PhaseSpec == PhaseInit /\ [][Lunar]_vars

\* The lunar script alone, under every sky.
SkyInit ==
    /\ InitCommon
    /\ file \in {EntryFile(<<0>>, "L1", 0)}
    /\ ephem \in [phase : {200}, sky : Skies]

SkySpec == SkyInit /\ [][Lunar]_vars


\* ------------------------------------------------------------- properties
\* What the invocation with history o saw when it checked the cache.
SawFreshEntry(o) ==
    o.loaded /\ o.seen.kind = "entry" /\ o.loadTime - o.seen.mtime < CACHE_DURATION
SawStaleOrAbsent(o) ==
    o.loaded /\ (o.seen.kind = "absent" \/ o.loadTime - o.seen.mtime >= CACHE_DURATION)
\* The fetch of the invocation succeeded: it holds a new weather response.
FetchSucceeded(p) == obs[p].wx /\ weather[p] # NoWeather /\ weather[p] # obs[p].seen.weather

\* C1: an invocation that finds a cache entry younger than 3600 s takes weather
\* and location from it, makes no geolocation and no weather request, and
\* builds its record from the cached pair.
C1_FreshEntryIsUsed ==
    \A p \in WProcs :
        SawFreshEntry(obs[p]) =>
            /\ ~obs[p].fetched /\ ~obs[p].geo /\ ~obs[p].wx
            /\ weather[p] = obs[p].seen.weather
            /\ location[p] = obs[p].seen.location
            /\ wpc[p] = "done"
            /\ HasCoords(obs[p].seen.location) =>
                  /\ wout[p].kind = "ok"
                  /\ wout[p].weather = obs[p].seen.weather
                  /\ wout[p].location = obs[p].seen.location

C1_Witness ==
    \E p \in WProcs :
        /\ SawFreshEntry(obs[p])
        /\ obs[p].loadTime - obs[p].seen.mtime = CACHE_DURATION - 1
        /\ wout[p].kind = "ok"
        /\ wout[p].weather = <<1>>

\* C2 as stated: an invocation that finds the cache absent or at least 3600 s
\* old fetches, and once its fetch has succeeded and it has ended, the cache
\* holds the fetched pair stamped with the time of the write, and the record
\* is built from the fetched pair.
C2_Original ==
    \A p \in WProcs :
        SawStaleOrAbsent(obs[p]) =>
            /\ obs[p].fetched
            /\ (wpc[p] = "done" /\ FetchSucceeded(p)) =>
                  /\ obs[p].saved
                  /\ obs[p].after = EntryFile(weather[p], location[p], obs[p].saveTime)
                  /\ wout[p].kind = "ok"
                  /\ wout[p].weather = weather[p]
                  /\ wout[p].location = location[p]

\* C2 amended: the same, for the invocations whose cache write succeeded too.
C2_StaleIsRefetchedAndStored ==
    \A p \in WProcs :
        SawStaleOrAbsent(obs[p]) =>
            /\ obs[p].fetched
            /\ wpc[p] # "fetch" => obs[p].geo
            /\ (wpc[p] = "done" /\ FetchSucceeded(p)) =>
                  /\ wout[p].kind = "ok"
                  /\ wout[p].weather = weather[p]
                  /\ wout[p].location = location[p]
                  /\ obs[p].saved =>
                        obs[p].after = EntryFile(weather[p], location[p], obs[p].saveTime)

C2_Witness ==
    \E p \in WProcs :
        /\ obs[p].loaded /\ obs[p].seen.kind = "entry"
        /\ obs[p].loadTime - obs[p].seen.mtime = 4000
        /\ wpc[p] = "done" /\ FetchSucceeded(p) /\ obs[p].saved
        /\ obs[p].saveTime > obs[p].loadTime
        /\ file = EntryFile(weather[p], location[p], clock)

\* Two invocations, the second started after the first ended and nothing in
\* between; the first found the cache absent or stale; both printed a record.
Successive(p) ==
    /\ wpc[p] = "done" /\ obs[p].loaded /\ obs[p].solo
    /\ wout[p].kind = "ok"
    /\ obs[p].pred.valid /\ obs[p].pred.miss /\ obs[p].pred.ok
Fetches(p) == (IF obs[p].pred.fetched THEN 1 ELSE 0) + (IF obs[p].fetched THEN 1 ELSE 0)

\* C3 as stated: the interval is the time between the two cache checks.
C3_Original ==
    \A p \in WProcs :
        Successive(p) =>
            LET gap == obs[p].loadTime - obs[p].pred.loadTime
            IN /\ gap < CACHE_DURATION => Fetches(p) = 1
               /\ gap > CACHE_DURATION => Fetches(p) = 2

\* C3 amended: the first invocation's cache write succeeded, and the interval
\* runs from that write to the second invocation's cache check.
C3_RoundTrip ==
    \A p \in WProcs :
        (Successive(p) /\ obs[p].pred.saved) =>
            LET gap == obs[p].loadTime - obs[p].pred.saveTime
            IN /\ gap < CACHE_DURATION => Fetches(p) = 1
               /\ gap > CACHE_DURATION => Fetches(p) = 2

C3_Witness ==
    \E p \in WProcs :
        /\ Successive(p) /\ obs[p].pred.saved
        /\ obs[p].loadTime - obs[p].pred.saveTime = CACHE_DURATION - 1
        /\ obs[p].loadTime - obs[p].pred.loadTime > CACHE_DURATION
        /\ Fetches(p) = 1

\* C4: an invocation that finds a cache file it cannot use as a (weather,
\* location) pair goes on to fetch, as if the file were absent, and does not
\* end in an uncaught exception.
C4_CorruptIsAMiss ==
    \A p \in WProcs :
        (obs[p].loaded /\
         obs[p].seen.kind \in {"nonpair", "falsy", "corrupt", "unreadable", "partial"}) =>
            /\ obs[p].fetched
            /\ wout[p].kind # "crash"

\* C5: when the fetch succeeded and the cache write failed, the invocation
\* still prints the record built from the fetched pair.
C5_WriteFailureIsNotFatal ==
    \A p \in WProcs :
        (wpc[p] = "done" /\ FetchSucceeded(p) /\ obs[p].saveTried /\ ~obs[p].saved) =>
            /\ wout[p].kind = "ok"
            /\ wout[p].weather = weather[p]
            /\ wout[p].location = location[p]

C5_Witness ==
    \E p \in WProcs :
        /\ wpc[p] = "done" /\ FetchSucceeded(p) /\ obs[p].saveTried /\ ~obs[p].saved
        /\ file.kind = "partial"
        /\ wout[p].kind = "ok"

\* C7: when the ipapi.co request is rate limited and a stale entry exists, the
\* invocation prints the record of the stale entry.
C7_StaleServedOn429 ==
    \A p \in WProcs :
        (/\ wpc[p] = "done" /\ obs[p].ip429
         /\ obs[p].loaded /\ obs[p].seen.kind = "entry" /\ HasCoords(obs[p].seen.location)
         /\ obs[p].loadTime - obs[p].seen.mtime >= CACHE_DURATION) =>
            /\ wout[p].kind = "ok"
            /\ wout[p].location = obs[p].seen.location


\* C6: no reader of the cache file, in either script, ever looks at a file
\* that a writer has truncated and not yet finished writing.
C6_ReadersSeeWholeEntries ==
    /\ \A p \in WProcs : obs[p].loaded => obs[p].seen.kind # "partial"
    /\ \A i \in 1..3 : lsrc[i] # "partial"

\* The table of the eight phases, phase_percent in quarters of a percent.
PhaseNames ==
    {"New Moon", "Waxing Crescent", "First Quarter", "Waxing Gibbous",
     "Full Moon", "Waning Gibbous", "Last Quarter", "Waning Crescent"}
RuleApplies(n, pp, w) ==
    CASE n = "New Moon"        -> pp < 25
      [] n = "Full Moon"       -> pp > 375
      [] n = "Waxing Crescent" -> w /\ 25 <= pp /\ pp < 175
      [] n = "First Quarter"   -> w /\ 175 <= pp /\ pp < 225
      [] n = "Waxing Gibbous"  -> w /\ 225 <= pp /\ pp <= 375
      [] n = "Waning Crescent" -> ~w /\ 25 <= pp /\ pp < 175
      [] n = "Last Quarter"    -> ~w /\ 175 <= pp /\ pp < 225
      [] n = "Waning Gibbous"  -> ~w /\ 225 <= pp /\ pp <= 375
PhaseComputed == moon.phase_name # ""

\* C8: for every illuminated percentage and either value of is_waxing exactly
\* one rule of the table applies, and the name computed is the name of that
\* rule.
C8_Bucketing ==
    PhaseComputed =>
        {n \in PhaseNames : RuleApplies(n, moon.phase_percent, moon.is_waxing)}
            = {moon.phase_name}

C8_Witness ==
    /\ moon.phase_percent = 200 /\ ~moon.is_waxing
    /\ moon.phase_name = "Last Quarter"
    /\ lout.kind = "ok" /\ lout.phase_name = "Last Quarter"

\* C9: is_waxing is true exactly when the previous new moon is more recent
\* than the previous full moon.
C9_WaxingIsBrightening ==
    PhaseComputed =>
        (moon.is_waxing <=> days_since_new(ephem.sky) < days_from_full(ephem.sky))

\* The first two get_location() calls of an invocation serve the phase
\* computation: get_moon_phases and get_current_moon_phase.
Called(i) == lsrc[i] # ""
NoFile(i) == lsrc[i] = "absent"
NoCoordinates(i) == lsrc[i] = "entry" /\ lloc[i] = NoCoords
Unusable(i) == lsrc[i] \in {"nonpair", "falsy", "corrupt", "unreadable", "partial"}

\* C10 as stated: a location that cannot be obtained or is invalid makes the
\* invocation fail, and the default location is never substituted.
C10_Original ==
    \A i \in 1..2 :
        (Called(i) /\ (NoFile(i) \/ NoCoordinates(i) \/ Unusable(i))) =>
            /\ lout.kind = "crash"
            /\ lloc[i] # Mumbai

\* C10 amended: an absent file or a location without coordinates makes the
\* invocation fail without a record; a file that exists but cannot be read as a
\* pair makes get_location return the default location, and the record is
\* computed for it.
C10_LocationFailure ==
    \A i \in 1..2 :
        Called(i) =>
            /\ (NoFile(i) \/ NoCoordinates(i)) =>
                  /\ lpc = "done" /\ lout.kind = "crash"
                  /\ lout.phase_name = "" /\ lloc[i] # Mumbai
            /\ Unusable(i) =>
                  /\ lloc[i] = Mumbai
                  /\ lout.kind # "crash"
                  /\ (i = 2 /\ lpc = "done") =>
                        (lout.kind = "ok" /\ lout.location = Mumbai /\ lout.phase_name # "")

C10_Witness ==
    /\ lsrc[1] = "corrupt" /\ lsrc[2] = "corrupt"
    /\ lpc = "done" /\ lout.kind = "ok" /\ lout.location = Mumbai


\* C11: every invocation of either script that has ended has printed one JSON
\* record (the result or an error record) and nothing else: it did not die of
\* an uncaught exception and wrote no other line to standard output.
C11_OneJsonRecord ==
    /\ \A p \in WProcs :
          wpc[p] = "done" => (wout[p].kind \in {"ok", "error"} /\ wout[p].extra = 0)
    /\ lpc = "done" => (lout.kind = "ok" /\ lout.extra = 0)

\* C12: the get_location() calls of one lunar invocation all return the same
\* location.
C12_OneLocationPerInvocation ==
    \A i, j \in 1..3 : (Called(i) /\ Called(j)) => lloc[i] = lloc[j]

\* The file get_location() call i read was an entry at least CACHE_DURATION old.
ReadStaleEntry(i) == lsrc[i] = "entry" /\ lage[i] >= CACHE_DURATION

\* C13 as stated: an invocation of either script uses the contents of the
\* cache entry only while the entry is younger than 3600 s; a stale entry is
\* never read as data.
C13_Original ==
    /\ \A p \in WProcs :
          (obs[p].loaded /\ Truthy(cached_data[p])) =>
              obs[p].loadTime - obs[p].seen.mtime < CACHE_DURATION
    /\ \A i \in 1..3 :
          (Called(i) /\ lsrc[i] = "entry") => lage[i] < CACHE_DURATION

\* C13 amended: the freshness window is the weather script's. A weather
\* invocation that finds the file absent or 3600 s old or older reads nothing
\* from it, goes on to fetch, prints only fetched data, and replaces the file
\* when its write succeeds. The lunar script reads the location from an entry
\* of any age, and computes its record for that location.
C13_FreshnessWindow ==
    /\ \A p \in WProcs :
          (obs[p].loaded /\ Miss(obs[p])) =>
              /\ cached_data[p] = None
              /\ obs[p].fetched
              /\ wout[p].kind = "ok" =>
                    (wout[p].weather = weather[p] /\ weather[p] # obs[p].seen.weather)
              /\ obs[p].saved =>
                    obs[p].after = EntryFile(weather[p], location[p], obs[p].saveTime)
    /\ \A i \in 1..3 :
          ReadStaleEntry(i) =>
              /\ lloc[i] \in Locs \cup {NoCoords}
              /\ (i = 2 /\ lpc = "done" /\ lout.kind = "ok") => lout.location = lloc[2]

C13_Witness ==
    /\ \A i \in 1..3 : ReadStaleEntry(i) /\ lloc[i] \in Locs
    /\ lpc = "done" /\ lout.kind = "ok" /\ lout.location = lloc[2]
    /\ \E p \in WProcs :
          /\ obs[p].loaded /\ obs[p].seen.kind = "entry" /\ Miss(obs[p])
          /\ obs[p].saved /\ wout[p].kind = "ok"

====
